---------------------------- MODULE Spec2Model ----------------------------
(***************************************************************************)
(* Model of Ledsav/gif-generator.                                          *)
(*                                                                         *)
(*   src/main.py          the HTTP cloud function: verify_token,           *)
(*                        check_rate_limit, update_rate_limit,             *)
(*                        generate_gif and the handler generate_gif_http   *)
(*   src/generate_gif.py  the command-line variant: generate_gif and the   *)
(*                        __main__ argument parsing                        *)
(*                                                                         *)
(* Two specifications share the module.  SpecGif draws the inputs of the   *)
(* frame synthesis (image lists, timing parameters, command lines) from    *)
(* bounded sets and applies the two generate_gif functions and the         *)
(* command-line entry point to them.  Spec runs concurrent invocations of  *)
(* generate_gif_http against one Firestore collection and one clock; an    *)
(* invocation is interleaved with the others at its two store accesses.    *)
(*                                                                         *)
(* Images are modelled by their name and their size: pixel values, the     *)
(* palette chosen by convert("P") and the bytes of the file written by     *)
(* save() are not represented.  A blend weight f / (fade_frames + 1) is    *)
(* the pair <<f, fade_frames + 1>>.  Time is counted in whole days.        *)
(***************************************************************************)
EXTENDS Integers, Sequences, FiniteSets, TLC

VARIABLES
    gcall,      \* SpecGif: the call under test (which function, its arguments)
    gpc,        \* SpecGif: "start" before the call, "done" after it
    gout,       \* SpecGif: what the call produced
    now,        \* Spec: datetime.now(timezone.utc), in days
    store,      \* Spec: the Firestore collection "rate_limits", by document id
    req         \* Spec: the invocations of generate_gif_http

vars == <<gcall, gpc, gout, now, store, req>>

---------------------------------------------------------------------------
(* Bounds of the model *)

\* longest image list handed directly to a generate_gif function
MaxImages == 3
\* largest fade_frames tried
MaxFade == 3
\* most arguments after <duration_ms> on a command line
MaxArgs == 3

\* the sizes (width, height) of the image files the inputs are drawn from
ImageSizes ==
    { <<100, 100>>, <<50, 200>>, <<800, 800>>, <<801, 10>>,
      <<1600, 1200>>, <<3, 2000>> }

\* the (duration, fade_duration) pairs tried
Timings == { <<500, 50>>, <<100, 100>> }

---------------------------------------------------------------------------
(* Arithmetic helpers *)

Abs(n) == IF n < 0 THEN 0 - n ELSE n

Max2(a, b) == IF a >= b THEN a ELSE b

\* Python's max() over a non-empty collection of integers
MaxOf(S) == CHOOSE m \in S : \A n \in S : n <= m

\* math.ceil(a / b) for a >= 0, b > 0
CeilDiv(a, b) == IF (a \div b) * b = a THEN a \div b ELSE (a \div b) + 1

\* Python's a // b for b > 0 (floor division)
FloorDiv(a, b) == a \div b

---------------------------------------------------------------------------
(* Images *)

Img(size) == [w |-> size[1], h |-> size[2], name |-> size]

Images == { Img(s) : s \in ImageSizes }

\* main.py:117
MAX_SIZE == 800

\* PIL's Image.thumbnail((MAX_SIZE, MAX_SIZE)): round_aspect for the width.
\* x = max(min(floor(v), ceil(v), key = |aspect - n / y|), 1), v = y * aspect
RoundAspectX(w, h) ==
    LET lo  == FloorDiv(MAX_SIZE * w, h)
        hi  == CeilDiv(MAX_SIZE * w, h)
        klo == Abs(MAX_SIZE * w - lo * h)
        khi == Abs(MAX_SIZE * w - hi * h)
    IN  Max2(IF klo <= khi THEN lo ELSE hi, 1)

\* round_aspect for the height.
\* y = max(min(floor(v), ceil(v), key = 0 if n == 0 else |aspect - x / n|), 1),
\* v = x / aspect
RoundAspectY(w, h) ==
    LET lo  == FloorDiv(MAX_SIZE * h, w)
        hi  == CeilDiv(MAX_SIZE * h, w)
        klo == Abs(w * lo - MAX_SIZE * h)
        khi == Abs(w * hi - MAX_SIZE * h)
    IN  IF lo = 0 THEN 1
        ELSE Max2(IF klo * hi <= khi * lo THEN lo ELSE hi, 1)

\* img.thumbnail((MAX_SIZE, MAX_SIZE), LANCZOS): the image shrunk in place to
\* fit the box, its aspect ratio kept; an image that fits is left alone.
Thumbnail(img) ==
    IF MAX_SIZE >= img.w /\ MAX_SIZE >= img.h THEN img
    ELSE IF img.h >= img.w
         THEN [img EXCEPT !.w = RoundAspectX(img.w, img.h), !.h = MAX_SIZE]
         ELSE [img EXCEPT !.w = MAX_SIZE, !.h = RoundAspectY(img.w, img.h)]

\* main.py:120-124
Resize(img) ==
    IF img.w > MAX_SIZE \/ img.h > MAX_SIZE THEN Thumbnail(img) ELSE img

\* faulty variant: the offset is the whole margin, not half of it
Center_NoHalving(img, max_w, max_h) ==
    [ mode |-> "RGBA", w |-> max_w, h |-> max_h,
      x |-> max_w - img.w, y |-> max_h - img.h,
      img |-> img ]

\* the canvas of one image: Image.new("RGBA", (max_w, max_h)) with the image
\* pasted at (x, y)
Center(img, max_w, max_h) ==
    [ mode |-> "RGBA", w |-> max_w, h |-> max_h,
      x |-> FloorDiv(max_w - img.w, 2), y |-> FloorDiv(max_h - img.h, 2),
      img |-> img ]

\* Image.blend(im1, im2, alpha): a new image of im1's size
Blend(im1, im2, alpha) ==
    [ mode |-> "RGBA", w |-> im1.w, h |-> im1.h,
      im1 |-> im1, im2 |-> im2, alpha |-> alpha ]

\* Image.blend raises ValueError when the two images differ in size
BlendFails(im1, im2) == im1.w # im2.w \/ im1.h # im2.h

\* frame.convert("P", dither=NONE, palette=ADAPTIVE): same picture and size
Convert(frame) == [frame EXCEPT !.mode = "P"]

\* faulty variant: alpha = f / fade_frames, which reaches 1
FadeFrames_NoPlusOne(prev, curr, fade_frames) ==
    [ f \in 1..fade_frames |-> Blend(prev, curr, <<f, fade_frames>>) ]

\* the fade frames of one transition, f = 1 .. fade_frames
FadeFrames(prev, curr, fade_frames) ==
    [ f \in 1..fade_frames |-> Blend(prev, curr, <<f, fade_frames + 1>>) ]

\* faulty variant: one fade duration too many per transition
FadeDurations_ExtraEntry(fade_frames, fade_duration) ==
    [ f \in 1..(fade_frames + 1) |-> fade_duration ]

\* the durations of the fade frames of one transition
FadeDurations(fade_frames, fade_duration) ==
    [ f \in 1..fade_frames |-> fade_duration ]

\* [f.convert("P", ...) for f in frames]
ConvertAll(frames) == [ k \in 1..Len(frames) |-> Convert(frames[k]) ]

\* resized_images: every image of the list after main.py:120-124
ResizeAll(images) == [ k \in 1..Len(images) |-> Resize(images[k]) ]


---------------------------------------------------------------------------
(* Frame synthesis: the two generate_gif functions *)

\* max_w = max(img.width for img in images); the list is not empty
CanvasWidth(images) == MaxOf({ images[k].w : k \in 1..Len(images) })

\* faulty variant: the canvas height taken from the widths
CanvasHeight_FromWidths(images) == MaxOf({ images[k].w : k \in 1..Len(images) })

\* max_h = max(img.height for img in images); the list is not empty
CanvasHeight(images) == MaxOf({ images[k].h : k \in 1..Len(images) })

\* centered = [canvas with img pasted at the centring offset, for img in images]
CenterAll(images) ==
    [ k \in 1..Len(images) |->
        Center(images[k], CanvasWidth(images), CanvasHeight(images)) ]

\* some Image.blend call of the loop raises
SomeBlendFails(centered, fade_frames) ==
    \E i \in 2..Len(centered) :
        fade_frames >= 1 /\ BlendFails(centered[i - 1], centered[i])

\* main.py: frames after the loop body has run for centered[i] (i = 1: before
\* the loop); every frame is converted as it is appended
RECURSIVE MainFrames(_, _, _)
MainFrames(centered, i, fade_frames) ==
    IF i = 1 THEN << Convert(centered[1]) >>
    ELSE MainFrames(centered, i - 1, fade_frames)
         \o ConvertAll(FadeFrames(centered[i - 1], centered[i], fade_frames))
         \o << Convert(centered[i]) >>

\* main.py: durations after the loop body has run for centered[i]
RECURSIVE MainDurations(_, _, _, _)
MainDurations(i, duration, fade_frames, fade_duration) ==
    IF i = 1 THEN << duration >>
    ELSE MainDurations(i - 1, duration, fade_frames, fade_duration)
         \o FadeDurations(fade_frames, fade_duration)
         \o << duration >>

\* generate_gif.py: frames after the loop body has run for centered[i], not
\* yet converted
RECURSIVE CliFrames(_, _, _)
CliFrames(centered, i, fade_frames) ==
    IF i = 1 THEN << centered[1] >>
    ELSE CliFrames(centered, i - 1, fade_frames)
         \o FadeFrames(centered[i - 1], centered[i], fade_frames)
         \o << centered[i] >>

\* generate_gif.py: durations after the loop body has run for centered[i]
RECURSIVE CliDurations(_, _, _, _)
CliDurations(i, duration, fade_frames, fade_duration) ==
    IF i = 1 THEN << duration >>
    ELSE CliDurations(i - 1, duration, fade_frames, fade_duration)
         \o FadeDurations(fade_frames, fade_duration)
         \o << duration >>

\* a call that ended in an exception: nothing is returned or written
Raised(exc) ==
    [ status |-> exc, max_w |-> 0, max_h |-> 0, centered |-> << >>,
      frames |-> << >>, durations |-> << >> ]

\* a call that returned: the canvas size, the centered images, and the
\* frames and durations handed to frames[0].save(..., loop=0, disposal=2)
Saved(max_w, max_h, centered, frames, durations) ==
    [ status |-> "ok", max_w |-> max_w, max_h |-> max_h, centered |-> centered,
      frames |-> frames, durations |-> durations ]

\* main.py generate_gif(images, duration, fade_frames, fade_duration)
generate_gif_http_version(images, duration, fade_frames, fade_duration) ==
    LET resized_images == ResizeAll(images)
        centered       == CenterAll(resized_images)
    IN  IF Len(resized_images) = 0 THEN Raised("ValueError")  \* max() of nothing
        ELSE IF SomeBlendFails(centered, fade_frames) THEN Raised("ValueError")
        ELSE Saved(CanvasWidth(resized_images), CanvasHeight(resized_images),
                   centered,
                   MainFrames(centered, Len(centered), fade_frames),
                   MainDurations(Len(centered), duration, fade_frames,
                                 fade_duration))

\* generate_gif.py generate_gif(image_paths, output_path, duration,
\* fade_frames, fade_duration), the files already opened as `images`
generate_gif_cli_version(images, duration, fade_frames, fade_duration) ==
    LET centered == CenterAll(images)
    IN  IF Len(images) = 0 THEN Raised("ValueError")          \* max() of nothing
        ELSE IF SomeBlendFails(centered, fade_frames) THEN Raised("ValueError")
        ELSE Saved(CanvasWidth(images), CanvasHeight(images), centered,
                   ConvertAll(CliFrames(centered, Len(centered), fade_frames)),
                   CliDurations(Len(centered), duration, fade_frames,
                                fade_duration))

---------------------------------------------------------------------------
(* The command line of generate_gif.py *)

\* One argument of the command line: a string of digits (its value in int),
\* a path with an image extension to a readable image (its size in size),
\* such a path to a file Image.open cannot read ("badimage"), or a string
\* that is none of these and that int() rejects, like "notes.txt" ("other").
Token(kind, int, size) == [ kind |-> kind, int |-> int, size |-> size ]

DigitTokens == { Token("digits", n, <<0, 0>>) : n \in {2, 50} }

ImageTokens == { Token("image", 0, s) : s \in { <<100, 100>>, <<50, 200>> } }

OtherToken == Token("other", 0, <<0, 0>>)

BadImageToken == Token("badimage", 0, <<0, 0>>)

ArgTokens == DigitTokens \cup ImageTokens \cup { OtherToken, BadImageToken }

\* str.isdigit()
IsDigit(tok) == tok.kind = "digits"

\* f.lower().endswith(valid_exts)
HasValidExt(tok) == tok.kind \in { "image", "badimage" }

\* [f for f in image_files if f.lower().endswith(valid_exts)]
RECURSIVE FilterValid(_)
FilterValid(files) ==
    IF files = << >> THEN << >>
    ELSE (IF HasValidExt(Head(files)) THEN << Head(files) >> ELSE << >>)
         \o FilterValid(Tail(files))

\* possible_images[:-k]
DropLast(s, k) == SubSeq(s, 1, Len(s) - k)

\* what a run of the script ends with
CliOutcome(exit, image_files, fade_frames, fade_duration, gif) ==
    [ exit |-> exit, image_files |-> image_files, fade_frames |-> fade_frames,
      fade_duration |-> fade_duration, gif |-> gif ]

\* generate_gif.py __main__, argv = sys.argv[1:]
CliMain(argv) ==
    IF Len(argv) < 3
    THEN CliOutcome("usage", << >>, 10, 100, Raised("SystemExit"))
    ELSE IF ~IsDigit(argv[2])                     \* int(sys.argv[2]) raises
    THEN CliOutcome("raised", << >>, 10, 100, Raised("ValueError"))
    ELSE
    LET duration        == argv[2].int
        possible_images == SubSeq(argv, 3, Len(argv))
        n               == Len(possible_images)
        two   == n > 1 /\ IsDigit(possible_images[n])
                       /\ IsDigit(possible_images[n - 1])
        one   == ~two /\ n > 0 /\ IsDigit(possible_images[n])
        fade_duration == IF two THEN possible_images[n].int ELSE 100
        fade_frames   == IF two THEN possible_images[n - 1].int
                         ELSE IF one THEN possible_images[n].int ELSE 10
        image_files   == FilterValid(
                            IF two THEN DropLast(possible_images, 2)
                            ELSE IF one THEN DropLast(possible_images, 1)
                            ELSE possible_images)
    IN  IF image_files = << >>
        THEN CliOutcome("no_valid", image_files, fade_frames, fade_duration,
                        Raised("SystemExit"))
        ELSE IF \E k \in 1..Len(image_files) : image_files[k].kind = "badimage"
        THEN CliOutcome("raised", image_files, fade_frames, fade_duration,
                        Raised("OSError"))        \* Image.open raises
        ELSE LET gif == generate_gif_cli_version(
                            [ k \in 1..Len(image_files) |-> Img(image_files[k].size) ],
                            duration, fade_frames, fade_duration)
             IN  CliOutcome(IF gif.status = "ok" THEN "saved" ELSE "raised",
                            image_files, fade_frames, fade_duration, gif)

---------------------------------------------------------------------------
(* SpecGif: the frame synthesis applied to bounded inputs *)

\* the sequences over S of length at most n
SeqsUpTo(S, n) == UNION { [1..k -> S] : k \in 0..n }

\* a direct call of one of the two generate_gif functions
DirectCall(fn, images, duration, fade_frames, fade_duration) ==
    [ fn |-> fn, images |-> images, duration |-> duration,
      fade_frames |-> fade_frames, fade_duration |-> fade_duration,
      argv |-> << >> ]

\* a run of the script: python generate_gif.py argv[1] argv[2] ...
ScriptRun(argv) ==
    [ fn |-> "script", images |-> << >>, duration |-> 0, fade_frames |-> 0,
      fade_duration |-> 0, argv |-> argv ]

NoCall == [ fn |-> "none", images |-> << >>, duration |-> 0, fade_frames |-> 0,
            fade_duration |-> 0, argv |-> << >> ]

NoOutcome == CliOutcome("none", << >>, 0, 0, Raised("none"))

DirectCalls ==
    { DirectCall(fn, images, t[1], ff, t[2]) :
        fn \in { "http", "cli" }, images \in SeqsUpTo(Images, MaxImages),
        ff \in (0 - 1)..MaxFade, t \in Timings }

\* <output.gif> <duration_ms> and what follows; or fewer arguments than that
CommandLines ==
    LET out == OtherToken
        dur == { Token("digits", 500, <<0, 0>>), OtherToken }
    IN  { << >>, << out >> }
        \cup { << out, d >> \o rest : d \in dur, rest \in SeqsUpTo(ArgTokens, MaxArgs) }

ScriptRuns == { ScriptRun(argv) : argv \in CommandLines }

\* a direct call's outcome in the shape of a script run's
DirectOutcome(call, gif) ==
    CliOutcome(IF gif.status = "ok" THEN "saved" ELSE "raised",
               << >>, call.fade_frames, call.fade_duration, gif)

CallHttpVersion ==
    /\ gpc = "start" /\ gcall.fn = "http"
    /\ gout' = DirectOutcome(gcall,
                   generate_gif_http_version(gcall.images, gcall.duration,
                       gcall.fade_frames, gcall.fade_duration))
    /\ gpc' = "done"
    /\ UNCHANGED <<gcall, now, store, req>>

CallCliVersion ==
    /\ gpc = "start" /\ gcall.fn = "cli"
    /\ gout' = DirectOutcome(gcall,
                   generate_gif_cli_version(gcall.images, gcall.duration,
                       gcall.fade_frames, gcall.fade_duration))
    /\ gpc' = "done"
    /\ UNCHANGED <<gcall, now, store, req>>

RunScript ==
    /\ gpc = "start" /\ gcall.fn = "script"
    /\ gout' = CliMain(gcall.argv)
    /\ gpc' = "done"
    /\ UNCHANGED <<gcall, now, store, req>>

---------------------------------------------------------------------------
(* The HTTP function: bounds and inputs *)

\* the clock stops here
MaxTime == 7
\* longest "images" list of a request body
MaxBodyImages == 4

\* main.py:24
RATE_LIMIT_DAYS == 7

\* the invocations of generate_gif_http, numbered in their order of arrival:
\* two, which may overlap or follow one another
Requests == { 1, 2 }

\* the uids the identity service knows
Users == { "u1", "u2" }

\* The Authorization header: absent, not of the form "Bearer <token>", or
\* "Bearer <token>" with a token that auth.verify_id_token accepts for a
\* uid, rejects as invalid, rejects as expired, or fails on otherwise.
Headers ==
    { [ form |-> "missing", token |-> "none" ],
      [ form |-> "malformed", token |-> "none" ] }
    \cup { [ form |-> "bearer", token |-> t ] :
             t \in Users \cup { "invalid", "expired", "unverifiable" } }

\* The request body as get_json(silent=True) sees it: not JSON ("invalid"),
\* the empty object, a non-empty array, or an object whose "images" is a
\* list of nimg strings (nimg = 0: an empty list, or no "images" at all);
\* ints_ok: int() accepts its duration, fade_frames and fade_duration;
\* decodable: every image of the list decodes.
Body(json, nimg, ints_ok, decodable) ==
    [ json |-> json, nimg |-> nimg, ints_ok |-> ints_ok, decodable |-> decodable ]

Bodies ==
    { Body("invalid", 0, TRUE, TRUE), Body("empty_object", 0, TRUE, TRUE),
      Body("array", 0, TRUE, TRUE) }
    \cup { Body("object", n, i, TRUE) : n \in 0..MaxBodyImages, i \in BOOLEAN }
    \cup { Body("object", n, TRUE, FALSE) : n \in 2..3 }

UnreadBody == Body("unread", 0, TRUE, TRUE)

\* the images of a body with n entries, decoded
SampleSizes == << <<100, 100>>, <<50, 200>>, <<1600, 1200>> >>

BodyImages(n) == [ k \in 1..n |-> Img(SampleSizes[((k - 1) % 3) + 1]) ]

\* the timing fields of every body whose fields int() accepts
BodyTiming == [ duration |-> 500, fade_frames |-> 2, fade_duration |-> 50 ]

---------------------------------------------------------------------------
(* The HTTP function: verify_token, check_rate_limit, update_rate_limit *)

\* a document of the collection, or its absence
NoDoc == [ exists |-> FALSE, last_generation |-> 0, user_id |-> "none" ]

Doc(t, user_id) == [ exists |-> TRUE, last_generation |-> t, user_id |-> user_id ]

\* a (value, error, status) tuple as the three helpers return it
Ret(value, error, status) == [ value |-> value, error |-> error, status |-> status ]

\* verify_token(request).  ExpiredIdTokenError is a subclass of
\* InvalidIdTokenError, so the first except clause takes both.
verify_token(header) ==
    IF header.form = "missing"
    THEN Ret("none", "Missing Authorization header", 401)
    ELSE IF header.form # "bearer"
    THEN Ret("none", "Invalid Authorization header format", 401)
    ELSE IF header.token \in Users THEN Ret(header.token, "none", 0)
    ELSE IF header.token \in { "invalid", "expired" }
    THEN Ret("none", "Invalid authentication token", 401)
    ELSE Ret("none", "Authentication failed", 401)

\* faulty variant: a generation exactly RATE_LIMIT_DAYS old still limits
check_rate_limit_Inclusive(user_id, docs, current_time, raises) ==
    LET doc == docs[user_id]
    IN  IF raises THEN [ allowed |-> TRUE, status |-> 0, retry_after |-> 0 ]
        ELSE IF doc.exists
                /\ current_time - doc.last_generation <= RATE_LIMIT_DAYS
        THEN [ allowed |-> FALSE, status |-> 429,
               retry_after |-> doc.last_generation + RATE_LIMIT_DAYS ]
        ELSE [ allowed |-> TRUE, status |-> 0, retry_after |-> 0 ]

\* faulty variant: a store error during the check refuses the request
check_rate_limit_FailClosed(user_id, docs, current_time, raises) ==
    LET doc == docs[user_id]
    IN  IF raises
        THEN [ allowed |-> FALSE, status |-> 429,
               retry_after |-> current_time + RATE_LIMIT_DAYS ]
        ELSE IF doc.exists
                /\ current_time - doc.last_generation < RATE_LIMIT_DAYS
        THEN [ allowed |-> FALSE, status |-> 429,
               retry_after |-> doc.last_generation + RATE_LIMIT_DAYS ]
        ELSE [ allowed |-> TRUE, status |-> 0, retry_after |-> 0 ]

\* check_rate_limit(user_id) with the collection as it is, the clock at
\* current_time, and the store raising or not.  value: allowed;
\* retry_after: last_generation + RATE_LIMIT_DAYS, in days.
check_rate_limit(user_id, docs, current_time, raises) ==
    LET doc == docs[user_id]
    IN  IF raises THEN [ allowed |-> TRUE, status |-> 0, retry_after |-> 0 ]
        ELSE IF doc.exists
                /\ current_time - doc.last_generation < RATE_LIMIT_DAYS
        THEN [ allowed |-> FALSE, status |-> 429,
               retry_after |-> doc.last_generation + RATE_LIMIT_DAYS ]
        ELSE [ allowed |-> TRUE, status |-> 0, retry_after |-> 0 ]

\* faulty variant: the document id is a fixed string, one document for all users
update_rate_limit_SharedDoc(user_id, docs, current_time, raises) ==
    IF raises THEN docs
    ELSE [ docs EXCEPT !["u1"] = Doc(current_time, user_id) ]

\* update_rate_limit(user_id): the collection afterwards
update_rate_limit(user_id, docs, current_time, raises) ==
    IF raises THEN docs
    ELSE [ docs EXCEPT ![user_id] = Doc(current_time, user_id) ]

\* generate_gif_http from get_json to the call of update_rate_limit: the
\* response it returns, or "update" with the encoded gif
Reply(pc, status, error, gif) ==
    [ pc |-> pc, status |-> status, error |-> error, gif |-> gif ]

\* faulty variant: a failed decode is swallowed and the handler carries on
parse_and_generate_SwallowDecode(body) ==
    IF body.json \in { "invalid", "empty_object" }
    THEN Reply("done", 400, "Invalid JSON payload", Raised("none"))
    ELSE IF body.json = "array"
    THEN Reply("done", 500, "Internal server error", Raised("none"))
    ELSE IF ~body.ints_ok
    THEN Reply("done", 500, "Internal server error", Raised("none"))
    ELSE IF body.nimg < 2
    THEN Reply("done", 400, "At least 2 images required", Raised("none"))
    ELSE IF body.nimg > 3
    THEN Reply("done", 400, "Maximum 3 images allowed", Raised("none"))
    ELSE IF ~body.decodable
    THEN Reply("update", 0, "none", Raised("OSError"))
    ELSE Reply("update", 0, "none",
               generate_gif_http_version(BodyImages(body.nimg),
                   BodyTiming.duration,
                   BodyTiming.fade_frames, BodyTiming.fade_duration))

parse_and_generate(body) ==
    IF body.json \in { "invalid", "empty_object" }
    THEN Reply("done", 400, "Invalid JSON payload", Raised("none"))
    ELSE IF body.json = "array"                     \* data.get: AttributeError
    THEN Reply("done", 500, "Internal server error", Raised("none"))
    ELSE IF ~body.ints_ok                           \* int(...): ValueError
    THEN Reply("done", 500, "Internal server error", Raised("none"))
    ELSE IF body.nimg < 2
    THEN Reply("done", 400, "At least 2 images required", Raised("none"))
    ELSE IF body.nimg > 3
    THEN Reply("done", 400, "Maximum 3 images allowed", Raised("none"))
    ELSE IF ~body.decodable                         \* Image.open raises
    THEN Reply("done", 500, "Internal server error", Raised("none"))
    ELSE LET gif == generate_gif_http_version(BodyImages(body.nimg),
                        BodyTiming.duration,
                   BodyTiming.fade_frames, BodyTiming.fade_duration)
         IN  IF gif.status = "ok" THEN Reply("update", 0, "none", gif)
             ELSE Reply("done", 500, "Internal server error", Raised("none"))

---------------------------------------------------------------------------
(* The HTTP function: one invocation of generate_gif_http *)

UnreadHeader == [ form |-> "unread", token |-> "none" ]

\* An invocation.  pc: where it stands; header, body: what it has read of
\* the request so far; check: whether the store answered ("returned") or
\* raised in its call of check_rate_limit; update: whether its call of
\* update_rate_limit wrote the document ("written") or the store raised
\* ("not_called" before the call); status, error, retry_after, gif: the
\* response (status 0: none yet).
Invocation(pc, method, header, user_id, check, body, update, status, error, retry_after, gif) ==
    [ pc |-> pc, method |-> method, header |-> header, user_id |-> user_id,
      check |-> check, body |-> body, update |-> update, status |-> status,
      error |-> error, retry_after |-> retry_after, gif |-> gif ]

Idle == Invocation("idle", "none", UnreadHeader, "none", "not_called",
                   UnreadBody, "not_called", 0, "none", 0, Raised("none"))

\* invocation r starts once the ones numbered before it have
Arrives(r) ==
    /\ req[r].pc = "idle"
    /\ \A q \in Requests : q < r => req[q].pc # "idle"

\* main.py:194-201: the CORS preflight
ReceiveOptions(r) ==
    /\ Arrives(r)
    /\ req' = [ req EXCEPT ![r] =
                  [ Idle EXCEPT !.pc = "done", !.method = "OPTIONS", !.status = 204 ] ]
    /\ UNCHANGED <<gcall, gpc, gout, now, store>>

\* main.py:205-209: any other method; verify_token
ReceivePost(r) ==
    /\ Arrives(r)
    /\ \E header \in Headers :
         LET v == verify_token(header)
         IN  req' = [ req EXCEPT ![r] =
                 IF v.error # "none"
                 THEN [ Idle EXCEPT !.pc = "done", !.method = "POST",
                                    !.header = header, !.status = v.status,
                                    !.error = v.error ]
                 ELSE [ Idle EXCEPT !.pc = "check", !.method = "POST",
                                    !.header = header, !.user_id = v.value ] ]
    /\ UNCHANGED <<gcall, gpc, gout, now, store>>

\* main.py:211-214: check_rate_limit reads the store
Check(r) ==
    /\ req[r].pc = "check"
    /\ \E raises \in BOOLEAN :
         LET c == check_rate_limit(req[r].user_id, store, now, raises)
         IN  req' = [ req EXCEPT ![r] =
                 IF ~c.allowed
                 THEN [ @ EXCEPT !.pc = "done",
                                 !.check = IF raises THEN "raised" ELSE "returned",
                                 !.status = c.status,
                                 !.error = "Rate limit exceeded",
                                 !.retry_after = c.retry_after ]
                 ELSE [ @ EXCEPT !.pc = "parse",
                                 !.check = IF raises THEN "raised" ELSE "returned" ] ]
    /\ UNCHANGED <<gcall, gpc, gout, now, store>>

\* main.py:216-247: parse, validate, decode, generate, encode
Process(r) ==
    /\ req[r].pc = "parse"
    /\ \E body \in Bodies :
         LET p == parse_and_generate(body)
         IN  req' = [ req EXCEPT ![r] =
                 [ @ EXCEPT !.pc = p.pc, !.body = body, !.status = p.status,
                            !.error = p.error, !.gif = p.gif ] ]
    /\ UNCHANGED <<gcall, gpc, gout, now, store>>

\* main.py:249-253: update_rate_limit writes the store; the 200 response
Update(r) ==
    /\ req[r].pc = "update"
    /\ \E raises \in BOOLEAN :
         /\ store' = update_rate_limit(req[r].user_id, store, now, raises)
         /\ req' = [ req EXCEPT ![r] =
                 [ @ EXCEPT !.pc = "done", !.status = 200,
                            !.update = IF raises THEN "raised" ELSE "written" ] ]
    /\ UNCHANGED <<gcall, gpc, gout, now>>

\* a day passes
Tick ==
    /\ now < MaxTime
    /\ now' = now + 1
    /\ UNCHANGED <<gcall, gpc, gout, store, req>>

---------------------------------------------------------------------------
(* Specifications *)

HttpIdle ==
    /\ now = 0
    /\ store = [ u \in Users |-> NoDoc ]
    /\ req = [ r \in Requests |-> Idle ]

\* the HTTP function deployed, the collection empty
Init ==
    /\ gcall = NoCall /\ gpc = "off" /\ gout = NoOutcome
    /\ HttpIdle

Next ==
    \/ \E r \in Requests : ReceiveOptions(r)
    \/ \E r \in Requests : ReceivePost(r)
    \/ \E r \in Requests : Check(r)
    \/ \E r \in Requests : Process(r)
    \/ \E r \in Requests : Update(r)
    \/ Tick

Spec == Init /\ [][Next]_vars

\* one call of the frame synthesis, its arguments drawn from the bounded sets
InitGif ==
    /\ gcall \in DirectCalls \cup ScriptRuns
    /\ gpc = "start" /\ gout = NoOutcome
    /\ HttpIdle

NextGif ==
    \/ CallHttpVersion
    \/ CallCliVersion
    \/ RunScript

SpecGif == InitGif /\ [][NextGif]_vars

---------------------------------------------------------------------------
(* Properties of the frame synthesis, checked under SpecGif *)

\* a direct call of one of the two generate_gif functions has ended
DirectDone == gpc = "done" /\ gcall.fn \in { "http", "cli" }

\* a run of the script has ended, and it called generate_gif
ScriptCalled ==
    /\ gpc = "done" /\ gcall.fn = "script"
    /\ gout.image_files # << >>
    /\ \A k \in 1..Len(gout.image_files) : gout.image_files[k].kind = "image"

\* the images generate_gif was given, in order
GivenImages ==
    IF gcall.fn = "script"
    THEN [ k \in 1..Len(gout.image_files) |-> Img(gout.image_files[k].size) ]
    ELSE gcall.images

\* the base duration generate_gif was given
GivenDuration == IF gcall.fn = "script" THEN gcall.argv[2].int ELSE gcall.duration

\* m is the largest member of S
IsMaxOver(m, S) == m \in S /\ \A n \in S : n <= m

\* the timeline length the specification gives for n images
TimelineLength(n, fade_frames) == 1 + (n - 1) * (fade_frames + 1)

\* C1: for N >= 2 images and fade_frames >= 0, both versions of generate_gif
\* (called directly or by the script) return, and the frame list and the
\* duration list they build each have 1 + (N-1)*(fade_frames+1) entries.
C1_TimelineLength ==
    ((DirectDone \/ ScriptCalled)
        /\ Len(GivenImages) >= 2 /\ gout.fade_frames >= 0)
    => /\ gout.exit = "saved"
       /\ Len(gout.gif.frames)
            = TimelineLength(Len(GivenImages), gout.fade_frames)
       /\ Len(gout.gif.durations)
            = TimelineLength(Len(GivenImages), gout.fade_frames)
       /\ Len(gout.gif.frames) = Len(gout.gif.durations)

\* three images and two fade frames: seven entries
C1_Witness ==
    /\ DirectDone /\ gcall.fn = "http"
    /\ Len(gcall.images) = 3 /\ gcall.fade_frames = 2
    /\ Len(gout.gif.frames) = 7 /\ Len(gout.gif.durations) = 7

\* entry p of the timeline is image i shown for the base duration
IsRealEntry(p, i) ==
    /\ "alpha" \notin DOMAIN gout.gif.frames[p]
    /\ gout.gif.frames[p].img.name = GivenImages[i].name
    /\ gout.gif.durations[p] = GivenDuration

\* entry p of the timeline is the blend of images i and i + 1 at weight
\* f / (fade_frames + 1), shown for fade_duration
IsFadeEntry(p, i, f) ==
    /\ "alpha" \in DOMAIN gout.gif.frames[p]
    /\ gout.gif.frames[p].alpha = << f, gout.fade_frames + 1 >>
    /\ 0 < f /\ f < gout.fade_frames + 1
    /\ gout.gif.frames[p].im1.img.name = GivenImages[i].name
    /\ gout.gif.frames[p].im2.img.name = GivenImages[i + 1].name
    /\ gout.gif.durations[p] = gout.fade_duration

\* C2: the timeline is the first image with the base duration, then for each
\* following image the blends with its predecessor at weights
\* f/(fade_frames+1), f = 1..fade_frames, each with fade_duration, then the
\* image with the base duration; every weight lies strictly between 0 and 1.
C2_TimelineShape ==
    ((DirectDone \/ ScriptCalled)
        /\ Len(GivenImages) >= 1 /\ gout.fade_frames >= 0)
    => LET n     == Len(GivenImages)
           block == gout.fade_frames + 1
       IN  /\ gout.exit = "saved"
           /\ Len(gout.gif.frames) = TimelineLength(n, gout.fade_frames)
           /\ Len(gout.gif.durations) = TimelineLength(n, gout.fade_frames)
           /\ \A p \in 1..TimelineLength(n, gout.fade_frames) :
                IF (p - 1) % block = 0
                THEN IsRealEntry(p, ((p - 1) \div block) + 1)
                ELSE IsFadeEntry(p, ((p - 1) \div block) + 1, (p - 1) % block)
           /\ IsRealEntry(1, 1)
           /\ IsRealEntry(TimelineLength(n, gout.fade_frames), n)

\* images=[A,B], duration=500, fade_frames=2, fade_duration=50
C2_Witness ==
    /\ DirectDone
    /\ gcall.images = << Img(<<100, 100>>), Img(<<50, 200>>) >>
    /\ gcall.duration = 500 /\ gcall.fade_frames = 2 /\ gcall.fade_duration = 50
    /\ gout.gif.durations = << 500, 50, 50, 500 >>
    /\ gout.gif.frames[2].alpha = << 1, 3 >>
    /\ gout.gif.frames[3].alpha = << 2, 3 >>

\* every frame of the output has the canvas's size
FramesHaveCanvasSize ==
    \A p \in 1..Len(gout.gif.frames) :
        /\ gout.gif.frames[p].w = gout.gif.max_w
        /\ gout.gif.frames[p].h = gout.gif.max_h

\* C3 as stated: the canvas is the largest width and the largest height of
\* the images as passed in, and every frame has that size.
C3_CanvasOfInputs ==
    (DirectDone /\ Len(gcall.images) >= 2)
    => /\ gout.exit = "saved"
       /\ IsMaxOver(gout.gif.max_w,
                    { gcall.images[k].w : k \in 1..Len(gcall.images) })
       /\ IsMaxOver(gout.gif.max_h,
                    { gcall.images[k].h : k \in 1..Len(gcall.images) })
       /\ FramesHaveCanvasSize

\* image k as generate_gif pasted it
Pasted(k) == gout.gif.centered[k].img

\* The pasted image is the input: as passed in, or (HTTP version, an input
\* wider or taller than MAX_SIZE) shrunk so that its longer side is MAX_SIZE.
PastedFromInput(k) ==
    LET in == gcall.images[k]
    IN  /\ Pasted(k).name = in.name
        /\ IF gcall.fn = "cli" \/ (in.w <= MAX_SIZE /\ in.h <= MAX_SIZE)
           THEN Pasted(k).w = in.w /\ Pasted(k).h = in.h
           ELSE /\ Pasted(k).w >= 1 /\ Pasted(k).h >= 1
                /\ Pasted(k).w <= MAX_SIZE /\ Pasted(k).h <= MAX_SIZE
                /\ (Pasted(k).w = MAX_SIZE \/ Pasted(k).h = MAX_SIZE)
                /\ (in.w >= in.h => Pasted(k).w = MAX_SIZE)
                /\ (in.h >= in.w => Pasted(k).h = MAX_SIZE)

\* C3 amended: the canvas is the largest width and the largest height of the
\* images as pasted (the inputs, those over MAX_SIZE shrunk by the HTTP
\* version), and every frame has that size.
C3_CanvasOfPasted ==
    (DirectDone /\ Len(gcall.images) >= 2)
    => /\ gout.exit = "saved"
       /\ Len(gout.gif.centered) = Len(gcall.images)
       /\ \A k \in 1..Len(gcall.images) : PastedFromInput(k)
       /\ IsMaxOver(gout.gif.max_w,
                    { Pasted(k).w : k \in 1..Len(gcall.images) })
       /\ IsMaxOver(gout.gif.max_h,
                    { Pasted(k).h : k \in 1..Len(gcall.images) })
       /\ FramesHaveCanvasSize

\* the HTTP version given 1600x1200 and 50x200: the canvas is 800x600
C3_Witness ==
    /\ DirectDone /\ gcall.fn = "http"
    /\ gcall.images = << Img(<<1600, 1200>>), Img(<<50, 200>>) >>
    /\ gout.gif.max_w = 800 /\ gout.gif.max_h = 600
    /\ gcall.fade_frames = 1
    /\ Len(gout.gif.frames) = 3 /\ FramesHaveCanvasSize

\* d is floor(a / 2)
IsHalfFloor(d, a) == 2 * d <= a /\ a <= 2 * d + 1

\* C4: an image of size (w, h) is pasted at (floor((max_w - w)/2),
\* floor((max_h - h)/2)); the offset is not negative and the pasted image
\* lies inside the canvas.  100x100 and 50x200 give the canvas 100x200 and
\* the offsets (0,50) and (25,0).
C4_CenteringOffsets ==
    ((DirectDone \/ ScriptCalled) /\ Len(GivenImages) >= 1)
    => /\ gout.exit = "saved"
       /\ Len(gout.gif.centered) = Len(GivenImages)
       /\ \A k \in 1..Len(GivenImages) :
            LET c == gout.gif.centered[k]
            IN  /\ c.w = gout.gif.max_w /\ c.h = gout.gif.max_h
                /\ IsHalfFloor(c.x, gout.gif.max_w - c.img.w)
                /\ IsHalfFloor(c.y, gout.gif.max_h - c.img.h)
                /\ c.x >= 0 /\ c.y >= 0
                /\ c.x + c.img.w <= gout.gif.max_w
                /\ c.y + c.img.h <= gout.gif.max_h
                /\ \E p \in 1..Len(gout.gif.frames) :
                       gout.gif.frames[p] = [ c EXCEPT !.mode = "P" ]
       /\ (GivenImages = << Img(<<100, 100>>), Img(<<50, 200>>) >>
            => /\ gout.gif.max_w = 100 /\ gout.gif.max_h = 200
               /\ gout.gif.centered[1].x = 0 /\ gout.gif.centered[1].y = 50
               /\ gout.gif.centered[2].x = 25 /\ gout.gif.centered[2].y = 0)

\* 100x100 and 50x200 through the command-line version
C4_Witness ==
    /\ DirectDone /\ gcall.fn = "cli"
    /\ gcall.images = << Img(<<100, 100>>), Img(<<50, 200>>) >>
    /\ gout.gif.max_w = 100 /\ gout.gif.max_h = 200
    /\ gout.gif.centered[1].x = 0 /\ gout.gif.centered[1].y = 50
    /\ gout.gif.centered[2].x = 25 /\ gout.gif.centered[2].y = 0

\* C10 as stated: generate_gif given fewer than 2 images (directly, or by
\* the script given one valid image file) ends in an error and writes no
\* animation.
C10_FewerThanTwoFails ==
    ((DirectDone \/ ScriptCalled) /\ Len(GivenImages) < 2)
    => /\ gout.exit # "saved"
       /\ gout.gif.status # "ok"
       /\ gout.gif.frames = << >>

---------------------------------------------------------------------------
(* Properties of the HTTP function, checked under Spec *)

\* invocation r has returned its response to a POST
PostDone(r) == req[r].pc = "done" /\ req[r].method = "POST"

\* invocation r returns status and error
Answers(r, status, error) == req[r].status = status /\ req[r].error = error

\* invocation r read the body: its check_rate_limit allowed the request
CooldownPassed(r) == req[r].body.json # "unread"

\* C5 as stated: the response to a POST is that of the first failing check
\* among header, token, cooldown, JSON, at least 2 images, at most 3 images,
\* whatever the later checks and the other body fields are.  (The empty
\* object may be answered 400 by the JSON check or by the images check:
\* only its status is compared.)
C5_FirstFailingCheck ==
    \A r \in Requests :
        PostDone(r) =>
            IF req[r].header.form \in { "missing", "malformed" }
            THEN req[r].status = 401
            ELSE IF req[r].header.token \notin Users
            THEN req[r].status = 401
            ELSE IF ~CooldownPassed(r)
            THEN req[r].status = 429
            ELSE IF req[r].body.json \in { "invalid", "empty_object" }
            THEN req[r].status = 400
            ELSE IF req[r].body.nimg < 2
            THEN Answers(r, 400, "At least 2 images required")
            ELSE IF req[r].body.nimg > 3
            THEN Answers(r, 400, "Maximum 3 images allowed")
            ELSE req[r].status \in { 200, 500 }

\* the step is invocation r returning a response other than 200
Rejects(r) ==
    /\ req[r].status = 0
    /\ req'[r].status \in { 204, 400, 401, 429, 500 }

\* the step is invocation r calling update_rate_limit
CallsUpdate(r) == req[r].update = "not_called" /\ req'[r].update # "not_called"

\* C6: update_rate_limit is called only by an invocation whose generate_gif
\* has returned, in the step that answers 200; an invocation that answers
\* 204, 400 (4 images included), 401, 429 or 500 never calls it and leaves
\* the store as it was; nothing else changes the store.
C6_UpdateOnlyAfterGeneration ==
    [][ /\ \A r \in Requests :
             /\ CallsUpdate(r) => /\ req[r].pc = "update"
                                  /\ req[r].gif.status = "ok"
                                  /\ req'[r].status = 200
             /\ Rejects(r) => /\ store' = store
                              /\ req'[r].update = "not_called"
             /\ req[r].update # "not_called" => req'[r].update = req[r].update
        /\ store' # store =>
             \E r \in Requests : CallsUpdate(r) /\ req'[r].update = "written"
      ]_vars

\* four images answered 400 with the store untouched, beside a successful
\* invocation whose update was written
C6_Witness ==
    \E r, q \in Requests :
        /\ Answers(r, 400, "Maximum 3 images allowed")
        /\ req[r].body.nimg = 4 /\ req[r].update = "not_called"
        /\ store[req[r].user_id] = NoDoc
        /\ req[q].status = 200 /\ req[q].update = "written"
        /\ store[req[q].user_id].exists

\* the step is invocation r's call of check_rate_limit
Checks(r) == req[r].pc = "check" /\ req'[r].pc # "check"

\* C7: with the store readable, check_rate_limit answers 429 exactly when
\* the user's document holds a last_generation less than RATE_LIMIT_DAYS
\* (7 days) before the current time, with retry_after = last_generation + 7
\* days; otherwise (no document, or 7 days old or older) the user is
\* admitted.
C7_CooldownDecision ==
    [][ \A r \in Requests :
          (Checks(r) /\ req'[r].check = "returned") =>
            LET doc == store[req[r].user_id]
                hot == doc.exists /\ now - doc.last_generation < RATE_LIMIT_DAYS
            IN  /\ req'[r].status = 429 <=> hot
                /\ hot => /\ req'[r].pc = "done"
                          /\ req'[r].retry_after
                               = doc.last_generation + RATE_LIMIT_DAYS
                /\ ~hot => req'[r].pc = "parse" /\ req'[r].status = 0
      ]_vars

\* last generation 2 days ago: 429 with retry_after = now + 5 days
C7_Witness ==
    \E r \in Requests :
        /\ req[r].status = 429 /\ req[r].check = "returned"
        /\ store[req[r].user_id].exists
        /\ store[req[r].user_id].last_generation = now - 2
        /\ req[r].retry_after = now + 5

\* the body of invocation r passes every validation and decodes
ValidBody(body) ==
    /\ body.json = "object" /\ body.ints_ok /\ body.decodable
    /\ body.nimg \in 2..3

\* C8: a store error never denies service.  Raised during the check, the
\* request is allowed and goes on to parsing and, its body valid, to
\* generation; raised during the update, the request still answers 200 with
\* the generated gif and the store is unchanged.
C8_StoreErrorsFailOpen ==
    [][ \A r \in Requests :
          /\ (Checks(r) /\ req'[r].check = "raised")
               => /\ req'[r].pc = "parse" /\ req'[r].status = 0
                  /\ store' = store
          /\ (req[r].pc = "parse" /\ req[r].check = "raised"
                /\ req'[r].pc # "parse" /\ ValidBody(req'[r].body))
               => /\ req'[r].pc = "update"
                  /\ req'[r].gif.status = "ok"
          /\ (CallsUpdate(r) /\ req'[r].update = "raised")
               => /\ req'[r].status = 200 /\ req'[r].pc = "done"
                  /\ req'[r].gif = req[r].gif /\ req[r].gif.status = "ok"
                  /\ store' = store
      ]_vars

\* both store calls of one invocation raised, and it answered 200
C8_Witness ==
    \E r \in Requests :
        /\ req[r].check = "raised" /\ req[r].update = "raised"
        /\ req[r].status = 200 /\ req[r].gif.status = "ok"
        /\ store[req[r].user_id] = NoDoc

\* C9: a user's document is changed only by an update of one of that
\* user's own invocations, and a user is limited only after an update of one
\* of their own invocations was written: requests of different users never
\* affect each other's cooldown decision.  (That two requests of one user
\* can both pass the check before either updates is C9_Witness.)
C9_UsersIsolated ==
    /\ [][ \A u \in Users :
             store'[u] # store[u] =>
               \E r \in Requests :
                 /\ req[r].user_id = u
                 /\ CallsUpdate(r) /\ req'[r].update = "written"
                 /\ store'[u] = Doc(now, u)
         ]_vars
    /\ [] (\A r \in Requests :
             req[r].status = 429 =>
               \E q \in Requests \ { r } :
                 /\ req[q].user_id = req[r].user_id
                 /\ req[q].update = "written")

\* two invocations of one user, the store answering every call, both
\* admitted by the check and both answered 200 less than 7 days after
\* the first request arrived
C9_Witness ==
    \E r, q \in Requests :
        /\ r # q /\ req[r].user_id = req[q].user_id
        /\ req[r].status = 200 /\ req[q].status = 200
        /\ req[r].check = "returned" /\ req[q].check = "returned"
        /\ req[r].update = "written" /\ req[q].update = "written"
        /\ now < RATE_LIMIT_DAYS

=============================================================================
